---- MODULE Spec2Model ----
(***************************************************************************)
(* Model of xcat3's SQLAlchemy storage backend (xcat3/db/sqlalchemy/api.py) *)
(* : the node reservation protocol (reserve_node, reserve_nodes,            *)
(* release_node, release_nodes) and the conductor liveness registry         *)
(* (register_conductor, touch_conductor, unregister_conductor,              *)
(* get_conductor, get_conductors), and the Node / Nics entity store         *)
(* (create_node, update_node, destroy_node, destroy_nodes, create_nic,      *)
(* get_nic_by_id, get_nic_by_uuid, get_nic_by_mac).                         *)
(*                                                                         *)
(* Every reservation call runs in one writer transaction                    *)
(* (`with _session_for_write()`): a conditional UPDATE, then a SELECT of    *)
(* the same rows, then commit when the block is left normally and rollback  *)
(* when an exception leaves it.  A call is modelled in three steps:         *)
(* entering the block, the UPDATE statement, and the rest of the block, so  *)
(* that transactions of different callers overlap.                          *)
(***************************************************************************)
EXTENDS Integers, FiniteSets, Sequences, TLC

\* ------------------------------------------------------------------ bounds
MaxNodes == 2
MaxTime == 3
MaxTimeout == 2

\* ------------------------------------------------------------ input domains
None == "None"
Tags == {"t1", "t2"}
Procs == {"c1", "c2"}
NodeIds == 1..MaxNodes
\* The names callers give to nodes.  Where the reservation calls start from
\* a given table, node i, when it exists, carries the name NameOf(i); not
\* every id need exist, so names and ids of missing nodes are among the
\* inputs.
NameOf(i) == <<"node", i>>
NodeNames == {NameOf(i) : i \in NodeIds}
\* An identity passed to reserve_node / release_node: an integer-like value
\* (an id, possibly of no node) or a value that is not integer-like.
Identities == [int_like : {TRUE}, value : NodeIds]
                  \cup {[int_like |-> FALSE, value |-> 0]}
NoIdentity == [int_like |-> FALSE, value |-> 0]
Hostnames == {"h1", "h2"}
Attrs == {"a1", "a2"}
NoName == <<"node", 0>>
NoMac == "None"
Macs == {"m1", "m2"}
\* The store has an id for every nic that can exist.
NicIds == 1..Cardinality(Macs)
\* A uuid the caller of create_nic supplies, or none (NoUuid); the uuids
\* uuidutils.generate_uuid() can return.
NoUuid == <<"none", 0>>
UserUuids == {<<"usr", 1>>}
GenUuids == {<<"gen", k>> : k \in 1..(Cardinality(Macs) + 1)}
\* values['nics_info']['nics'] of create_node: the macs of the nics, in order.
RECURSIVE SeqsUpTo(_, _)
SeqsUpTo(S, n) ==
    IF n = 0 THEN {<< >>}
    ELSE SeqsUpTo(S, n - 1)
             \cup {Append(q, x) : q \in SeqsUpTo(S, n - 1), x \in S}
NicsInfos == SeqsUpTo(Macs, Cardinality(Macs))

VARIABLES
    nodes,       \* committed Node table: id -> [name, reservation]
    pc,          \* per caller: "idle", "begun", "updated", "done"
    call,        \* per caller: the call in progress (op, tag, selector)
    writes,      \* per caller: uncommitted row updates of its transaction
    count,       \* per caller: row count returned by its UPDATE
    result,      \* per caller: outcome of its finished call
    pre,         \* per caller: committed Node table when its call started
    conductors,  \* committed Conductor table: hostname -> record
    now,         \* timeutils.utcnow()
    heartbeat_timeout, \* CONF.conductor.heartbeat_timeout
    reply,       \* outcome of the last registry call
    reg,         \* per caller: its register_conductor call in progress
    nics,        \* committed Nics table: id -> [node_id, mac, uuid]
    sreply       \* outcome of the last entity store call

vars == <<nodes, pc, call, writes, count, result, pre,
          conductors, now, heartbeat_timeout, reply, reg, nics, sreply>>
callVars == <<pc, call, writes, count, result, pre>>
lockVars == <<nodes, pc, call, writes, count, result, pre>>
regVars == <<conductors, now, heartbeat_timeout, reply, reg>>
storeVars == <<nics, sreply>>

Empty == [x \in {} |-> None]
NoCall == [op |-> "none", tag |-> None, node_id |-> NoIdentity, node_names |-> {}]
NoResult == [status |-> "none", host |-> None]
\* A Conductor row as a registry call found it; Absent when there was none.
Absent == [exists |-> FALSE, online |-> FALSE, updated_at |-> 0, attrs |-> None]
NoReply == [op |-> "none", hostname |-> None, attrs |-> None,
            update_existing |-> FALSE, status |-> "none", rows |-> {},
            at |-> 0, was |-> Absent]
NoRegCall == [pc |-> "idle", hostname |-> None, attrs |-> None,
              update_existing |-> FALSE, was |-> Absent, status |-> "none"]
NoNic == [node_id |-> 0, mac |-> NoMac, uuid |-> NoUuid]

\* ------------------------------------------------------------ transactions
\* Rows on which another caller's open transaction holds a write lock.
LockedByOther(p) == UNION {DOMAIN writes[q] : q \in Procs \ {p}}

\* What a SELECT inside p's transaction reads: committed rows overlaid with
\* p's own uncommitted updates.
View(p) ==
    [i \in DOMAIN nodes |->
        IF i \in DOMAIN writes[p]
        THEN [nodes[i] EXCEPT !.reservation = writes[p][i]]
        ELSE nodes[i]]

\* model_query(models.Node): all rows of the table.
model_query == DOMAIN nodes

\* query.filter(models.Node.name.in_(node_names))
filter_name_in(query, node_names) == {i \in query : nodes[i].name \in node_names}

\* strutils.is_int_like
is_int_like(value) == value.int_like

\* add_identity_filter: query.filter_by(id=value) for an integer-like value;
\* the caller handles the InvalidIdentity branch.
add_identity_filter(query, value) == {i \in query : i = value.value}

\* The calls a caller can make.
AcquireOps == {"reserve_node", "reserve_nodes"}
ReleaseOps == {"release_node", "release_nodes"}
Calls(ops) ==
    [op : ops \cap {"reserve_node", "release_node"}, tag : Tags,
     node_id : Identities, node_names : {{}}]
    \cup
    [op : ops \cap {"reserve_nodes", "release_nodes"}, tag : Tags,
     node_id : {NoIdentity}, node_names : (SUBSET NodeNames) \ {{}}]

\* A caller invokes one of the operations in ops and enters
\* `with _session_for_write()`.
Begin(p, ops) ==
    /\ pc[p] = "idle"
    /\ \E c \in Calls(ops) : call' = [call EXCEPT ![p] = c]
    /\ pc' = [pc EXCEPT ![p] = "begun"]
    /\ pre' = [pre EXCEPT ![p] = nodes]
    /\ UNCHANGED <<nodes, writes, count, result, regVars, storeVars>>

\* The conditional UPDATE of p's transaction, `query.filter_by(reservation=
\* old).update(...)`, waits while a row it selects is write-locked by another
\* open transaction and satisfies the predicate in its committed version; a
\* locked row whose committed version does not satisfy the predicate may be
\* passed over without waiting.
CanUpdate(p, rows, old) ==
    \A i \in rows \cap LockedByOther(p) : nodes[i].reservation # old

\* Mutant: the UPDATE without its `reservation = old` predicate.
filter_by_reservation_nopred(p, rows, old) ==
    {i \in rows : i \notin LockedByOther(p)}

\* Mutant: the UPDATE also takes rows the caller's own tag already holds.
filter_by_reservation_reentrant(p, rows, old) ==
    {i \in rows : /\ i \notin LockedByOther(p)
                  /\ View(p)[i].reservation \in {old, call[p].tag}}

\* query.filter_by(reservation=old): the rows the UPDATE changes.
filter_by_reservation(p, rows, old) ==
    {i \in rows : i \notin LockedByOther(p) /\ View(p)[i].reservation = old}

\* The conditional UPDATE `.update({'reservation': new},
\* synchronize_session=False)`; count is the number of rows changed.
Update(p, rows, old, new) ==
    /\ pc[p] = "begun"
    /\ CanUpdate(p, rows, old)
    /\ LET matched == filter_by_reservation(p, rows, old) IN
        /\ writes' = [writes EXCEPT ![p] = [i \in matched |-> new]]
        /\ count' = [count EXCEPT ![p] = Cardinality(matched)]
    /\ pc' = [pc EXCEPT ![p] = "updated"]
    /\ UNCHANGED <<nodes, call, result, pre, regVars, storeVars>>

\* Mutant: the block commits whatever way it is left.
Leave_commit(p, res) ==
    /\ nodes' = View(p)
    /\ writes' = [writes EXCEPT ![p] = Empty]
    /\ result' = [result EXCEPT ![p] = res]
    /\ pc' = [pc EXCEPT ![p] = "done"]
    /\ UNCHANGED <<call, count, pre, regVars, storeVars>>

\* Leaving `with _session_for_write()`: commit when the block ends normally,
\* rollback when an exception leaves it; either way the row locks are freed.
Leave(p, res) ==
    /\ nodes' = IF res.status = "ok" THEN View(p) ELSE nodes
    /\ writes' = [writes EXCEPT ![p] = Empty]
    /\ result' = [result EXCEPT ![p] = res]
    /\ pc' = [pc EXCEPT ![p] = "done"]
    /\ UNCHANGED <<call, count, pre, regVars, storeVars>>

Outcome(status, host) == [status |-> status, host |-> host]

\* add_identity_filter raises InvalidIdentity, inside the transaction block
\* and before any statement is issued, for a value that is not integer-like.
InvalidIdentity(p) ==
    /\ pc[p] = "begun"
    /\ call[p].op \in {"reserve_node", "release_node"}
    /\ ~is_int_like(call[p].node_id)
    /\ Leave(p, Outcome("InvalidIdentity", None))

\* The rows the query of p's call selects, before the reservation predicate.
Selected(p) ==
    IF call[p].op \in {"reserve_nodes", "release_nodes"}
    THEN filter_name_in(model_query, call[p].node_names)
    ELSE IF is_int_like(call[p].node_id)
         THEN add_identity_filter(model_query, call[p].node_id)
         ELSE {}

\* Two transactions that issue their UPDATE at the same time over two or more
\* common rows can take the row locks in opposite orders.  The store then
\* aborts one of them; nothing in the block handles the error, so it leaves
\* the block as the store's deadlock error and the transaction is rolled back.
Deadlock(p) ==
    /\ pc[p] = "begun"
    /\ \E q \in Procs \ {p} :
           /\ pc[q] = "begun"
           /\ Cardinality(Selected(p) \cap Selected(q)) >= 2
    /\ Leave(p, Outcome("DBDeadlock", None))

\* ------------------------------------------------------------ reserve_nodes
\* Mutant: reserve_nodes without the `count != len(node_names)` check.
reserve_nodes_outcome_nocount(rows, cnt, node_names) ==
    IF rows = {} THEN Outcome("NodeNotFound", None)
    ELSE Outcome("ok", None)

\* The rest of reserve_nodes after the UPDATE: nodes = query.all(), then the
\* two checks.  rows are the re-read rows of the selection.
reserve_nodes_outcome(rows, cnt, node_names) ==
    IF rows = {} THEN Outcome("NodeNotFound", None)
    ELSE IF cnt # Cardinality(node_names) THEN Outcome("NodeLocked", None)
    ELSE Outcome("ok", None)

reserve_nodes_update(p) ==
    /\ call[p].op = "reserve_nodes"
    /\ Update(p, filter_name_in(model_query, call[p].node_names),
              None, call[p].tag)

reserve_nodes_finish(p) ==
    /\ pc[p] = "updated"
    /\ call[p].op = "reserve_nodes"
    /\ Leave(p, reserve_nodes_outcome(
                    filter_name_in(model_query, call[p].node_names),
                    count[p], call[p].node_names))

\* ------------------------------------------------------------ release_nodes
\* The rest of release_nodes after the UPDATE.  The loop raises NodeLocked
\* for the first re-read node with a reservation; query.all() has no ORDER
\* BY, so any such node may come first.  When the loop finds none, the block
\* ends normally.
release_nodes_outcomes(p, rows, cnt, node_names) ==
    IF cnt = Cardinality(node_names) THEN {Outcome("ok", None)}
    ELSE IF rows = {} THEN {Outcome("NodeNotFound", None)}
    ELSE LET held == {i \in rows : View(p)[i].reservation # None} IN
         IF held # {}
         THEN {Outcome("NodeLocked", View(p)[i].reservation) : i \in held}
         ELSE {Outcome("ok", None)}

release_nodes_update(p) ==
    /\ call[p].op = "release_nodes"
    /\ Update(p, filter_name_in(model_query, call[p].node_names),
              call[p].tag, None)

release_nodes_finish(p) ==
    /\ pc[p] = "updated"
    /\ call[p].op = "release_nodes"
    /\ \E res \in release_nodes_outcomes(
                      p, filter_name_in(model_query, call[p].node_names),
                      count[p], call[p].node_names) :
           Leave(p, res)

\* ------------------------------------------------------------- reserve_node
\* The rest of reserve_node after the UPDATE: node = query.one(), then the
\* count check.
reserve_node_outcome(p, rows, cnt) ==
    IF rows = {} THEN Outcome("NodeNotFound", None)
    ELSE IF cnt # 1
         THEN Outcome("NodeLocked",
                      View(p)[CHOOSE i \in rows : TRUE].reservation)
         ELSE Outcome("ok", None)

reserve_node_update(p) ==
    /\ call[p].op = "reserve_node"
    /\ is_int_like(call[p].node_id)
    /\ Update(p, add_identity_filter(model_query, call[p].node_id),
              None, call[p].tag)

reserve_node_finish(p) ==
    /\ pc[p] = "updated"
    /\ call[p].op = "reserve_node"
    /\ Leave(p, reserve_node_outcome(
                    p, add_identity_filter(model_query, call[p].node_id),
                    count[p]))

\* ------------------------------------------------------------- release_node
\* Mutant: release_node that does not look at the re-read reservation.
release_node_outcome_nolook(p, rows, cnt) ==
    IF cnt = 1 THEN Outcome("ok", None)
    ELSE IF rows = {} THEN Outcome("NodeNotFound", None)
    ELSE Outcome("NodeLocked", View(p)[CHOOSE i \in rows : TRUE].reservation)

\* The rest of release_node after the UPDATE: only when count != 1 the node
\* is re-read, and its reservation decides between NodeNotLocked and
\* NodeLocked.
release_node_outcome(p, rows, cnt) ==
    IF cnt = 1 THEN Outcome("ok", None)
    ELSE IF rows = {} THEN Outcome("NodeNotFound", None)
    ELSE LET node == View(p)[CHOOSE i \in rows : TRUE] IN
         IF node.reservation = None
         THEN Outcome("NodeNotLocked", None)
         ELSE Outcome("NodeLocked", node.reservation)

release_node_update(p) ==
    /\ call[p].op = "release_node"
    /\ is_int_like(call[p].node_id)
    /\ Update(p, add_identity_filter(model_query, call[p].node_id),
              call[p].tag, None)

release_node_finish(p) ==
    /\ pc[p] = "updated"
    /\ call[p].op = "release_node"
    /\ Leave(p, release_node_outcome(
                    p, add_identity_filter(model_query, call[p].node_id),
                    count[p]))

\* The caller takes the result and is ready for its next call.
Return(p) ==
    /\ pc[p] = "done"
    /\ pc' = [pc EXCEPT ![p] = "idle"]
    /\ call' = [call EXCEPT ![p] = NoCall]
    /\ count' = [count EXCEPT ![p] = 0]
    /\ result' = [result EXCEPT ![p] = NoResult]
    /\ pre' = [pre EXCEPT ![p] = Empty]
    /\ UNCHANGED <<nodes, writes, regVars, storeVars>>

\* ------------------------------------------------------- conductor registry
\* Each registry call is one statement or one writer transaction on the
\* Conductor table and is modelled as one step.  A table is a function from
\* the hostnames that have a row to [online, updated_at, attrs].
Found(table, hostname) ==
    IF hostname \in DOMAIN table
    THEN [exists |-> TRUE, online |-> table[hostname].online,
          updated_at |-> table[hostname].updated_at,
          attrs |-> table[hostname].attrs]
    ELSE Absent

\* Mutant: get_conductors with >= in place of >.
get_conductors_rows_inclusive(table, t, interval) ==
    LET limit == t - interval IN
    {h \in DOMAIN table : table[h].updated_at >= limit}

\* get_conductors: the rows with updated_at > utcnow() - heartbeat_timeout.
get_conductors_rows(table, t, interval) ==
    LET limit == t - interval IN
    {h \in DOMAIN table : table[h].updated_at > limit}

\* Mutant: get_conductor with the freshness filter of get_conductors.
get_conductor_rows_fresh(table, hostname) ==
    {h \in DOMAIN table :
        /\ h = hostname /\ table[h].online = TRUE
        /\ table[h].updated_at > now - heartbeat_timeout}

\* get_conductor: filter_by(hostname=hostname, online=True).one()
get_conductor_rows(table, hostname) ==
    {h \in DOMAIN table : h = hostname /\ table[h].online = TRUE}

\* Mutant: register_conductor that refuses only a conductor with a fresh
\* heartbeat.
register_conductor_refused_fresh(table, hostname, update_existing) ==
    /\ hostname \in DOMAIN table
    /\ table[hostname].online = TRUE /\ ~update_existing
    /\ table[hostname].updated_at > now - heartbeat_timeout

\* register_conductor: whether ConductorAlreadyRegistered is raised.
register_conductor_refused(table, hostname, update_existing) ==
    /\ hostname \in DOMAIN table
    /\ table[hostname].online = TRUE /\ ~update_existing

\* Mutant: register_conductor that updates an existing row with values only.
register_conductor_table_values(table, hostname, attrs, t) ==
    [h \in DOMAIN table \cup {hostname} |->
        IF h # hostname THEN table[h]
        ELSE IF h \in DOMAIN table THEN [table[h] EXCEPT !.attrs = attrs]
        ELSE [online |-> TRUE, updated_at |-> t, attrs |-> attrs]]

\* register_conductor: the table committed when it is not refused: the row
\* found, or a new one, updated with values, then with updated_at and online.
register_conductor_table(table, hostname, attrs, t) ==
    [h \in DOMAIN table \cup {hostname} |->
        IF h = hostname
        THEN [online |-> TRUE, updated_at |-> t, attrs |-> attrs]
        ELSE table[h]]

\* Mutant: unregister_conductor without the online=True filter.
unregister_conductor_rows_any(table, hostname) ==
    {h \in DOMAIN table : h = hostname}

\* unregister_conductor: the rows matched by filter_by(hostname=hostname,
\* online=True), which query.update({'online': False}) changes.
unregister_conductor_rows(table, hostname) ==
    {h \in DOMAIN table : h = hostname /\ table[h].online = TRUE}

\* Mutant: unregister_conductor that deletes the row.
unregister_conductor_table_delete(table, hostname) ==
    [h \in DOMAIN table \ unregister_conductor_rows(table, hostname) |->
        table[h]]

unregister_conductor_table(table, hostname) ==
    [h \in DOMAIN table |->
        IF h \in unregister_conductor_rows(table, hostname)
        THEN [table[h] EXCEPT !.online = FALSE]
        ELSE table[h]]

\* Mutant: touch_conductor that matches online rows only.
touch_conductor_rows_online(table, hostname) ==
    {h \in DOMAIN table : h = hostname /\ table[h].online = TRUE}

\* touch_conductor: the rows matched by filter_by(hostname=hostname), which
\* query.update({'updated_at': utcnow(), 'online': True}) changes.
touch_conductor_rows(table, hostname) ==
    {h \in DOMAIN table : h = hostname}

\* Mutant: touch_conductor that sets online but not updated_at.
touch_conductor_table_nostamp(table, hostname, t) ==
    [h \in DOMAIN table |->
        IF h \in touch_conductor_rows(table, hostname)
        THEN [table[h] EXCEPT !.online = TRUE]
        ELSE table[h]]

touch_conductor_table(table, hostname, t) ==
    [h \in DOMAIN table |->
        IF h \in touch_conductor_rows(table, hostname)
        THEN [table[h] EXCEPT !.updated_at = t, !.online = TRUE]
        ELSE table[h]]

Reply(op, hostname, attrs, update_existing, status, rows) ==
    [op |-> op, hostname |-> hostname, attrs |-> attrs,
     update_existing |-> update_existing, status |-> status, rows |-> rows,
     at |-> now, was |-> Found(conductors, hostname)]

get_conductors ==
    /\ reply' = Reply("get_conductors", None, None, FALSE, "ok",
                      get_conductors_rows(conductors, now, heartbeat_timeout))
    /\ UNCHANGED <<conductors, now, heartbeat_timeout, lockVars, storeVars, reg>>

get_conductor ==
    \E hostname \in Hostnames :
        LET rows == get_conductor_rows(conductors, hostname) IN
        /\ reply' = Reply("get_conductor", hostname, None, FALSE,
                          IF rows = {} THEN "ConductorNotFound" ELSE "ok",
                          rows)
        /\ UNCHANGED <<conductors, now, heartbeat_timeout, lockVars, storeVars, reg>>

register_conductor ==
    \E hostname \in Hostnames, attrs \in Attrs, update_existing \in BOOLEAN :
        IF register_conductor_refused(conductors, hostname, update_existing)
        THEN /\ reply' = Reply("register_conductor", hostname, attrs,
                               update_existing, "ConductorAlreadyRegistered",
                               {})
             /\ UNCHANGED <<conductors, now, heartbeat_timeout, lockVars, storeVars, reg>>
        ELSE /\ conductors' = register_conductor_table(conductors, hostname,
                                                       attrs, now)
             /\ reply' = Reply("register_conductor", hostname, attrs,
                               update_existing, "ok", {hostname})
             /\ UNCHANGED <<now, heartbeat_timeout, lockVars, storeVars, reg>>

unregister_conductor ==
    \E hostname \in Hostnames :
        LET cnt == Cardinality(unregister_conductor_rows(conductors, hostname))
        IN
        IF cnt = 0
        THEN /\ reply' = Reply("unregister_conductor", hostname, None, FALSE,
                               "ConductorNotFound", {})
             /\ UNCHANGED <<conductors, now, heartbeat_timeout, lockVars, storeVars, reg>>
        ELSE /\ conductors' = unregister_conductor_table(conductors, hostname)
             /\ reply' = Reply("unregister_conductor", hostname, None, FALSE,
                               "ok", {})
             /\ UNCHANGED <<now, heartbeat_timeout, lockVars, storeVars, reg>>

touch_conductor ==
    \E hostname \in Hostnames :
        LET cnt == Cardinality(touch_conductor_rows(conductors, hostname)) IN
        IF cnt = 0
        THEN /\ reply' = Reply("touch_conductor", hostname, None, FALSE,
                               "ConductorNotFound", {})
             /\ UNCHANGED <<conductors, now, heartbeat_timeout, lockVars, storeVars, reg>>
        ELSE /\ conductors' = touch_conductor_table(conductors, hostname, now)
             /\ reply' = Reply("touch_conductor", hostname, None, FALSE,
                               "ok", {})
             /\ UNCHANGED <<now, heartbeat_timeout, lockVars, storeVars, reg>>

\* ------------------------------------------- register_conductor, overlapping
\* register_conductor as the steps of its writer transaction, so that the
\* calls of several callers can overlap: the query, then the flush of the new
\* or updated row when the block is left.

\* The Conductor table holds one row per hostname: the flush of a new row
\* for a hostname that has a row by then is a duplicate entry.
conductor_duplicate(table, hostname) == hostname \in DOMAIN table

\* How the block is left after the flush: register_conductor has no handler
\* for the DBDuplicateEntry of the flush.
register_conductor_flush_status(was, dup) ==
    IF ~was.exists /\ dup THEN "DBDuplicateEntry" ELSE "ok"

\* The caller enters the block and runs query.one(): an online row without
\* update_existing ends the call with ConductorAlreadyRegistered; otherwise
\* the call goes on with the row found, or with a new one (NoResultFound).
register_conductor_query(p) ==
    /\ reg[p].pc = "idle"
    /\ \E hostname \in Hostnames, attrs \in Attrs, update_existing \in BOOLEAN :
           LET refused == register_conductor_refused(conductors, hostname,
                                                     update_existing)
           IN reg' = [reg EXCEPT ![p] =
                         [pc |-> IF refused THEN "done" ELSE "queried",
                          hostname |-> hostname, attrs |-> attrs,
                          update_existing |-> update_existing,
                          was |-> Found(conductors, hostname),
                          status |-> IF refused
                                     THEN "ConductorAlreadyRegistered"
                                     ELSE "none"]]
    /\ UNCHANGED <<conductors, now, heartbeat_timeout, reply, lockVars,
                   storeVars>>

\* ref.update(values), ref.update({'updated_at': ..., 'online': True}) and
\* the end of the block: the row is flushed and committed, or the flush
\* fails and the transaction is rolled back.
register_conductor_flush(p) ==
    /\ reg[p].pc = "queried"
    /\ LET status == register_conductor_flush_status(
                         reg[p].was,
                         conductor_duplicate(conductors, reg[p].hostname))
       IN /\ conductors' = IF status = "ok"
                           THEN register_conductor_table(
                                    conductors, reg[p].hostname,
                                    reg[p].attrs, now)
                           ELSE conductors
          /\ reg' = [reg EXCEPT ![p].pc = "done", ![p].status = status]
    /\ UNCHANGED <<now, heartbeat_timeout, reply, lockVars, storeVars>>

\* The caller takes the result and is ready for its next call.
register_conductor_return(p) ==
    /\ reg[p].pc = "done"
    /\ reg' = [reg EXCEPT ![p] = NoRegCall]
    /\ UNCHANGED <<conductors, now, heartbeat_timeout, reply, lockVars,
                   storeVars>>

\* Time passes between calls.
Tick ==
    /\ now < MaxTime
    /\ now' = now + 1
    /\ UNCHANGED <<conductors, heartbeat_timeout, reply, lockVars, storeVars, reg>>

\* ------------------------------------------------------------ entity store
\* Node and Nics rows written by create_node, update_node, destroy_node,
\* destroy_nodes and create_nic.  Each call is one writer transaction
\* (`with _session_for_write()`), taken here as one step: the rows it has
\* flushed are committed when the block is left normally and rolled back when
\* an exception leaves it.
NoStoreReply == [op |-> "none", status |-> "none", name |-> NoName,
                 ids |-> {}, info |-> << >>, nic |-> NoNic,
                 flushed |-> 0, gone_nics |-> {}]

\* The id the store assigns to a new row.
new_id(ids, used) == CHOOSE i \in ids \ used : \A j \in ids \ used : i <= j

\* uuidutils.generate_uuid(): a uuid that no Nics row carries.
generate_uuid(table) ==
    LET free == {u \in GenUuids : \A n \in DOMAIN table : table[n].uuid # u}
    IN CHOOSE u \in free : \A v \in free : u[2] <= v[2]

\* session.add(row); session.flush() of a row that violates no constraint.
insert(table, id, row) ==
    [i \in DOMAIN table \cup {id} |-> IF i = id THEN row ELSE table[i]]

\* query.delete()
delete(table, rows) == [i \in DOMAIN table \ rows |-> table[i]]

\* The unique columns of Node (name) and of Nics (mac, uuid) on which a row
\* to insert or update collides with another row of the table.
node_duplicate_columns(table, id, name) ==
    {c \in {"name"} : \E i \in DOMAIN table \ {id} : table[i].name = name}

nic_duplicate_columns(table, row) ==
    {c \in {"mac", "uuid"} : \E n \in DOMAIN table : table[n][c] = row[c]}

\* exc.columns of the DBDuplicateEntry a flush raises: the columns of the one
\* constraint the store reports, whichever it is when several are violated.
DuplicateEntries(dup) == IF dup = {} THEN {{}} ELSE {{c} : c \in dup}

\* Leaving `with _session_for_write()`: commit, or roll back on an exception.
session_exit_keep(status, flushed, committed) == flushed

session_exit(status, flushed, committed) ==
    IF status = "ok" THEN flushed ELSE committed

\* create_node's loop over nics_info['nics']: each nic gets the new node's id
\* and a generated uuid and is flushed; the first flush that collides stops
\* the loop with the rows flushed so far still in the session.
RECURSIVE add_nics(_, _, _, _)
add_nics(table, node_id, info, k) ==
    IF info = << >>
    THEN [columns |-> {}, table |-> table, flushed |-> k]
    ELSE LET row == [node_id |-> node_id, mac |-> Head(info),
                     uuid |-> generate_uuid(table)]
             dup == nic_duplicate_columns(table, row)
         IN IF dup # {}
            THEN [columns |-> dup, table |-> table, flushed |-> k]
            ELSE add_nics(insert(table, new_id(NicIds, DOMAIN table), row),
                          node_id, Tail(info), k + 1)

\* The session of create_node when its try block ends: the node is flushed
\* first, then its nics.
create_node_flush(tn, tk, name, info) ==
    LET dup == node_duplicate_columns(tn, 0, name)
    IN IF dup # {}
       THEN [columns |-> dup, nodes |-> tn, nics |-> tk, flushed |-> 0,
             node_id |-> 0]
       ELSE LET id == new_id(NodeIds, DOMAIN tn)
                r == add_nics(tk, id, info, 0)
            IN [columns |-> r.columns,
                nodes |-> insert(tn, id, [name |-> name, reservation |-> None]),
                nics |-> r.table, flushed |-> r.flushed, node_id |-> id]

\* create_node's except clause: a duplicate on mac is raised again as the
\* DBDuplicateEntry it is, any other duplicate becomes DuplicateName.
create_node_status(columns) ==
    IF columns = {} THEN "ok"
    ELSE IF "mac" \in columns THEN "DBDuplicateEntry"
    ELSE "DuplicateName"

create_node ==
    \E name \in NodeNames, info \in NicsInfos :
        LET f == create_node_flush(nodes, nics, name, info)
            status == create_node_status(f.columns)
        IN /\ nodes' = session_exit(status, f.nodes, nodes)
           /\ nics' = session_exit(status, f.nics, nics)
           /\ sreply' = [NoStoreReply EXCEPT !.op = "create_node",
                            !.status = status, !.name = name, !.info = info,
                            !.flushed = f.flushed]
           /\ UNCHANGED <<callVars, regVars>>

\* update_node's except clause around _do_update_node.
update_node_status(columns) ==
    IF columns = {} THEN "ok"
    ELSE IF "name" \in columns THEN "DuplicateName"
    ELSE "DBDuplicateEntry"

\* values of update_node is {'name': name}.
update_node ==
    \E node_id \in Identities, name \in NodeNames :
        LET reply0 == [NoStoreReply EXCEPT !.op = "update_node",
                          !.name = name]
        IN IF ~is_int_like(node_id)
           THEN /\ sreply' = [reply0 EXCEPT !.status = "InvalidIdentity"]
                /\ UNCHANGED <<nodes, nics, callVars, regVars>>
           ELSE LET rows == add_identity_filter(model_query, node_id)
                IN IF rows = {}
                   THEN /\ sreply' = [reply0 EXCEPT !.status = "NodeNotFound"]
                        /\ UNCHANGED <<nodes, nics, callVars, regVars>>
                   ELSE LET status == update_node_status(
                                node_duplicate_columns(nodes, node_id.value,
                                                       name))
                            flushed == [i \in DOMAIN nodes |->
                                           IF i \in rows
                                           THEN [nodes[i] EXCEPT !.name = name]
                                           ELSE nodes[i]]
                        IN /\ nodes' = session_exit(status, flushed, nodes)
                           /\ sreply' = [reply0 EXCEPT !.status = status]
                           /\ UNCHANGED <<nics, callVars, regVars>>

\* model_query(models.Nics).filter_by(node_id=node['id']) for each node of rows
destroy_node_nics_none(table, rows) == {}

destroy_node_nics(table, rows) ==
    {n \in DOMAIN table : table[n].node_id \in rows}

destroy_node ==
    \E node_name \in NodeNames :
        LET rows == filter_name_in(model_query, {node_name})
            reply0 == [NoStoreReply EXCEPT !.op = "destroy_node",
                          !.name = node_name]
        IN IF rows = {}
           THEN /\ sreply' = [reply0 EXCEPT !.status = "NodeNotFound"]
                /\ UNCHANGED <<nodes, nics, callVars, regVars>>
           ELSE LET gone == destroy_node_nics(nics, rows)
                IN /\ nics' = session_exit("ok", delete(nics, gone), nics)
                   /\ nodes' = session_exit("ok", delete(nodes, rows), nodes)
                   /\ sreply' = [reply0 EXCEPT !.status = "ok",
                                    !.gone_nics = gone]
                   /\ UNCHANGED <<callVars, regVars>>

destroy_nodes ==
    \E node_ids \in SUBSET NodeIds :
        LET rows == {i \in model_query : i \in node_ids}
            reply0 == [NoStoreReply EXCEPT !.op = "destroy_nodes",
                          !.ids = node_ids]
        IN IF rows = {}
           THEN /\ sreply' = [reply0 EXCEPT !.status = "NodeNotFound"]
                /\ UNCHANGED <<nodes, nics, callVars, regVars>>
           ELSE LET gone == destroy_node_nics(nics, rows)
                IN /\ nics' = session_exit("ok", delete(nics, gone), nics)
                   /\ nodes' = session_exit("ok", delete(nodes, rows), nodes)
                   /\ sreply' = [reply0 EXCEPT !.status = "ok",
                                    !.gone_nics = gone]
                   /\ UNCHANGED <<callVars, regVars>>

\* create_nic's except clause.
create_nic_status_identity(columns) ==
    IF columns = {} THEN "ok" ELSE "NicAlreadyExists"

create_nic_status(columns) ==
    IF columns = {} THEN "ok"
    ELSE IF "mac" \in columns THEN "MACAlreadyExists"
    ELSE "NicAlreadyExists"

\* values of create_nic names the node the nic is attached to, a mac and,
\* optionally, a uuid; a uuid is generated when none is given.
create_nic ==
    \E node_id \in DOMAIN nodes, mac \in Macs, uuid \in UserUuids \cup {NoUuid} :
        LET row == [node_id |-> node_id, mac |-> mac,
                    uuid |-> IF uuid = NoUuid THEN generate_uuid(nics)
                             ELSE uuid]
            dup == nic_duplicate_columns(nics, row)
        IN \E columns \in DuplicateEntries(dup) :
               LET status == create_nic_status(columns)
                   flushed == IF dup = {}
                              THEN insert(nics, new_id(NicIds, DOMAIN nics),
                                          row)
                              ELSE nics
               IN /\ nics' = session_exit(status, flushed, nics)
                  /\ sreply' = [NoStoreReply EXCEPT !.op = "create_nic",
                                   !.status = status, !.nic = row]
                  /\ UNCHANGED <<nodes, callVars, regVars>>

\* query.one() of a nic lookup: the row, or NicNotFound.
get_nic_by_id_rows(table, id) == {n \in DOMAIN table : n = id}
get_nic_by_uuid_rows(table, uuid) == {n \in DOMAIN table : table[n].uuid = uuid}
get_nic_by_mac_rows(table, mac) == {n \in DOMAIN table : table[n].mac = mac}
nic_lookup_status(rows) == IF rows = {} THEN "NicNotFound" ELSE "ok"

get_nic_by_id ==
    \E id \in NicIds :
        LET rows == get_nic_by_id_rows(nics, id)
        IN /\ sreply' = [NoStoreReply EXCEPT !.op = "get_nic_by_id",
                            !.status = nic_lookup_status(rows)]
           /\ UNCHANGED <<nodes, nics, callVars, regVars>>

get_nic_by_uuid ==
    \E uuid \in UserUuids \cup GenUuids :
        LET rows == get_nic_by_uuid_rows(nics, uuid)
        IN /\ sreply' = [NoStoreReply EXCEPT !.op = "get_nic_by_uuid",
                            !.status = nic_lookup_status(rows)]
           /\ UNCHANGED <<nodes, nics, callVars, regVars>>

get_nic_by_mac ==
    \E mac \in Macs :
        LET rows == get_nic_by_mac_rows(nics, mac)
        IN /\ sreply' = [NoStoreReply EXCEPT !.op = "get_nic_by_mac",
                            !.status = nic_lookup_status(rows)]
           /\ UNCHANGED <<nodes, nics, callVars, regVars>>

\* ------------------------------------------------------------ specification
InitLock ==
    /\ pc = [p \in Procs |-> "idle"]
    /\ call = [p \in Procs |-> NoCall]
    /\ writes = [p \in Procs |-> Empty]
    /\ count = [p \in Procs |-> 0]
    /\ result = [p \in Procs |-> NoResult]
    /\ pre = [p \in Procs |-> Empty]

InitRegistry ==
    /\ conductors = Empty
    /\ now = 0
    /\ reply = NoReply
    /\ reg = [p \in Procs |-> NoRegCall]

InitNics ==
    /\ nics = Empty
    /\ sreply = NoStoreReply

\* The Node table holds any set of nodes created earlier, none reserved; the
\* Conductor table is empty.
Init ==
    /\ \E ids \in SUBSET NodeIds :
           nodes = [i \in ids |-> [name |-> NameOf(i), reservation |-> None]]
    /\ InitLock
    /\ InitRegistry
    /\ InitNics
    /\ heartbeat_timeout = MaxTimeout

\* The registry alone, under every configured heartbeat_timeout.
InitReg ==
    /\ nodes = Empty
    /\ InitLock
    /\ InitRegistry
    /\ InitNics
    /\ heartbeat_timeout \in 1..MaxTimeout

NextReg ==
    \/ get_conductors
    \/ get_conductor
    \/ register_conductor
    \/ unregister_conductor
    \/ touch_conductor
    \/ Tick

SpecReg == InitReg /\ [][NextReg]_vars

\* Registrations by several callers, overlapping freely.
InitRegRace ==
    /\ nodes = Empty
    /\ InitLock
    /\ InitRegistry
    /\ InitNics
    /\ heartbeat_timeout = MaxTimeout

NextRegRace ==
    \/ \E p \in Procs : register_conductor_query(p)
    \/ \E p \in Procs : register_conductor_flush(p)
    \/ \E p \in Procs : register_conductor_return(p)

SpecRegRace == InitRegRace /\ [][NextRegRace]_vars

\* The entity store alone, one call at a time, from an empty store.
InitStore ==
    /\ nodes = Empty
    /\ InitLock
    /\ InitRegistry
    /\ InitNics
    /\ heartbeat_timeout = MaxTimeout

NextStore ==
    \/ create_node
    \/ update_node
    \/ destroy_node
    \/ destroy_nodes
    \/ create_nic
    \/ get_nic_by_id
    \/ get_nic_by_uuid
    \/ get_nic_by_mac

SpecStore == InitStore /\ [][NextStore]_vars

\* Callers' transactions overlap freely.
Next ==
    \/ \E p \in Procs : Begin(p, AcquireOps \cup ReleaseOps)
    \/ \E p \in Procs : InvalidIdentity(p)
    \/ \E p \in Procs : Deadlock(p)
    \/ \E p \in Procs : reserve_nodes_update(p)
    \/ \E p \in Procs : reserve_nodes_finish(p)
    \/ \E p \in Procs : release_nodes_update(p)
    \/ \E p \in Procs : release_nodes_finish(p)
    \/ \E p \in Procs : reserve_node_update(p)
    \/ \E p \in Procs : reserve_node_finish(p)
    \/ \E p \in Procs : release_node_update(p)
    \/ \E p \in Procs : release_node_finish(p)
    \/ \E p \in Procs : Return(p)

Spec == Init /\ [][Next]_vars

\* One call at a time: a caller takes a step only while no other caller has
\* a call in progress.
Alone(p) == \A q \in Procs \ {p} : pc[q] = "idle"

NextSeq ==
    \/ \E p \in Procs : Alone(p) /\ Begin(p, AcquireOps \cup ReleaseOps)
    \/ \E p \in Procs : Alone(p) /\ InvalidIdentity(p)
    \/ \E p \in Procs : Alone(p) /\ reserve_nodes_update(p)
    \/ \E p \in Procs : Alone(p) /\ reserve_nodes_finish(p)
    \/ \E p \in Procs : Alone(p) /\ release_nodes_update(p)
    \/ \E p \in Procs : Alone(p) /\ release_nodes_finish(p)
    \/ \E p \in Procs : Alone(p) /\ reserve_node_update(p)
    \/ \E p \in Procs : Alone(p) /\ reserve_node_finish(p)
    \/ \E p \in Procs : Alone(p) /\ release_node_update(p)
    \/ \E p \in Procs : Alone(p) /\ release_node_finish(p)
    \/ \E p \in Procs : Alone(p) /\ Return(p)

SpecSeq == Init /\ [][NextSeq]_vars

\* Acquire calls only, overlapping freely, each caller making one call.
NextRace ==
    \/ \E p \in Procs : Begin(p, AcquireOps)
    \/ \E p \in Procs : InvalidIdentity(p)
    \/ \E p \in Procs : Deadlock(p)
    \/ \E p \in Procs : reserve_nodes_update(p)
    \/ \E p \in Procs : reserve_nodes_finish(p)
    \/ \E p \in Procs : reserve_node_update(p)
    \/ \E p \in Procs : reserve_node_finish(p)

SpecRace == Init /\ [][NextRace]_vars

\* Acquire and release calls, overlapping freely, each caller making one
\* call, from every table earlier calls can have committed: each node that
\* exists is unreserved or held by some tag.
InitOwn ==
    /\ \E ids \in SUBSET NodeIds :
           \E held \in [ids -> Tags \cup {None}] :
               nodes = [i \in ids |->
                           [name |-> NameOf(i), reservation |-> held[i]]]
    /\ InitLock
    /\ InitRegistry
    /\ InitNics
    /\ heartbeat_timeout = MaxTimeout

NextOwn ==
    \/ \E p \in Procs : Begin(p, AcquireOps \cup ReleaseOps)
    \/ \E p \in Procs : InvalidIdentity(p)
    \/ \E p \in Procs : Deadlock(p)
    \/ \E p \in Procs : reserve_nodes_update(p)
    \/ \E p \in Procs : reserve_nodes_finish(p)
    \/ \E p \in Procs : release_nodes_update(p)
    \/ \E p \in Procs : release_nodes_finish(p)
    \/ \E p \in Procs : reserve_node_update(p)
    \/ \E p \in Procs : reserve_node_finish(p)
    \/ \E p \in Procs : release_node_update(p)
    \/ \E p \in Procs : release_node_finish(p)

SpecOwn == InitOwn /\ [][NextOwn]_vars

\* ------------------------------------------------------------------ claims
Done(p) == pc[p] = "done"
Others(p) == Procs \ {p}

\* The ids a call names, whether or not a node has them.
Targets(c) ==
    IF c.op \in {"reserve_node", "release_node"}
    THEN {i \in NodeIds : is_int_like(c.node_id) /\ i = c.node_id.value}
    ELSE {i \in NodeIds : NameOf(i) \in c.node_names}

\* Node i existed and was unreserved when p's call started.
FreeAtStart(p, i) == i \in DOMAIN pre[p] /\ pre[p][i].reservation = None

\* p and q, with different tags, each acquire exactly node i, and both calls
\* started while i was unreserved.  Under SpecRace nothing releases, so the
\* two transactions overlap once both have finished and one succeeded.
RaceOn(p, q, i) ==
    /\ p # q
    /\ call[p].op \in AcquireOps /\ call[q].op \in AcquireOps
    /\ Targets(call[p]) = {i} /\ Targets(call[q]) = {i}
    /\ call[p].tag # call[q].tag
    /\ FreeAtStart(p, i) /\ FreeAtStart(q, i)

\* C1: when two callers with different tags acquire the same existing,
\* unreserved node in overlapping transactions, they never both succeed; a
\* caller that succeeded holds the node; and once both have finished exactly
\* one has succeeded and the other has failed with NodeLocked.
C1_MutualExclusion ==
    \A p \in Procs, q \in Procs, i \in NodeIds :
        RaceOn(p, q, i) =>
            /\ ~(result[p].status = "ok" /\ result[q].status = "ok")
            /\ result[p].status = "ok" => nodes[i].reservation = call[p].tag
            /\ (Done(p) /\ Done(q)) =>
                   \/ result[p].status = "ok" /\ result[q].status = "NodeLocked"
                   \/ result[q].status = "ok" /\ result[p].status = "NodeLocked"

C1_Witness ==
    \E p \in Procs, q \in Procs, i \in NodeIds :
        /\ RaceOn(p, q, i)
        /\ Done(p) /\ Done(q)
        /\ call[p].op = "reserve_node" /\ call[q].op = "reserve_nodes"
        /\ result[q].status = "ok" /\ result[p].status = "NodeLocked"
        /\ nodes[i].reservation = call[q].tag

\* The selection of p's call among the nodes that existed when it started.
SelectedAtStart(p) == Targets(call[p]) \cap DOMAIN pre[p]
MissingAtStart(p) == Targets(call[p]) \ DOMAIN pre[p]

\* C2: a finished reserve_nodes(tag, names) either succeeded, and then every
\* name belongs to a node whose reservation is tag and no other node changed,
\* or failed, and then the whole Node table is as it was before the call.
C2_BatchAcquireAtomic ==
    \A p \in Procs :
        (Done(p) /\ call[p].op = "reserve_nodes") =>
            \/ /\ result[p].status = "ok"
               /\ \A i \in Targets(call[p]) :
                      i \in DOMAIN nodes /\ nodes[i].reservation = call[p].tag
               /\ \A i \in DOMAIN nodes \ Targets(call[p]) :
                      nodes[i] = pre[p][i]
            \/ /\ result[p].status # "ok"
               /\ nodes = pre[p]

\* One selected node was free and another held by a different tag: the call
\* failed with NodeLocked and the free node is still free.
C2_Witness ==
    \E p \in Procs, i \in NodeIds, j \in NodeIds :
        /\ Done(p) /\ call[p].op = "reserve_nodes"
        /\ {i, j} \subseteq SelectedAtStart(p)
        /\ pre[p][i].reservation = None
        /\ pre[p][j].reservation \notin {None, call[p].tag}
        /\ result[p].status = "NodeLocked"
        /\ nodes[i].reservation = None

\* C3 (as claimed): a finished reserve_nodes one of whose names belonged to
\* no node failed with NodeNotFound and changed no reservation.
C3_MissingIsNotFound ==
    \A p \in Procs :
        (Done(p) /\ call[p].op = "reserve_nodes" /\ MissingAtStart(p) # {}) =>
            /\ result[p].status = "NodeNotFound"
            /\ nodes = pre[p]

\* C4: a finished release_node(tag, id) succeeded, clearing the reservation,
\* exactly when the node was held by tag; it failed with NodeNotLocked when
\* the node was unreserved, with NodeLocked (naming the holder) when another
\* tag held it, with NodeNotFound when there was no such node; every failure
\* left the Node table as it was.
C4_ReleaseAuthorization ==
    \A p \in Procs :
        (Done(p) /\ call[p].op = "release_node" /\ is_int_like(call[p].node_id))
        =>
        LET i == call[p].node_id.value IN
        IF i \notin DOMAIN pre[p]
        THEN result[p].status = "NodeNotFound" /\ nodes = pre[p]
        ELSE IF pre[p][i].reservation = call[p].tag
        THEN /\ result[p].status = "ok"
             /\ nodes = [pre[p] EXCEPT ![i].reservation = None]
        ELSE IF pre[p][i].reservation = None
        THEN result[p].status = "NodeNotLocked" /\ nodes = pre[p]
        ELSE /\ result[p] = Outcome("NodeLocked", pre[p][i].reservation)
             /\ nodes = pre[p]

\* A release by a tag that is not the holder failed with NodeLocked and the
\* holder kept the node.
C4_Witness ==
    \E p \in Procs, i \in NodeIds :
        /\ Done(p) /\ call[p].op = "release_node"
        /\ Targets(call[p]) = {i} /\ i \in DOMAIN pre[p]
        /\ pre[p][i].reservation \notin {None, call[p].tag}
        /\ result[p].status = "NodeLocked"
        /\ nodes[i].reservation = pre[p][i].reservation

\* C5 (as claimed): a finished release_nodes whose UPDATE changed fewer rows
\* than the names it was given failed: with NodeNotFound only if a name was
\* missing, with NodeNotLocked only if a selected node was unreserved, with
\* NodeLocked naming a holder other than tag; and it never succeeded when a
\* selected node was unreserved or missing.
C5_BatchReleaseShortfall ==
    \A p \in Procs :
        (Done(p) /\ call[p].op = "release_nodes") =>
            LET free == {i \in SelectedAtStart(p) :
                             pre[p][i].reservation = None}
                foreign == {i \in SelectedAtStart(p) :
                                pre[p][i].reservation \notin {None, call[p].tag}}
            IN
            /\ count[p] < Cardinality(call[p].node_names) =>
                   result[p].status \in
                       {"NodeNotLocked", "NodeLocked", "NodeNotFound"}
            /\ result[p].status = "ok" => free = {} /\ MissingAtStart(p) = {}
            /\ result[p].status = "NodeNotLocked" => free # {}
            /\ result[p].status = "NodeNotFound" => MissingAtStart(p) # {}
            /\ result[p].status = "NodeLocked" =>
                   \E i \in foreign : result[p].host = pre[p][i].reservation

\* C6 (as claimed): a finished release_nodes(tag, names) either released
\* every named node, all of which tag held, or left the Node table as it was.
C6_BatchReleaseAtomic ==
    \A p \in Procs :
        (Done(p) /\ call[p].op = "release_nodes") =>
            \/ /\ MissingAtStart(p) = {}
               /\ \A i \in Targets(call[p]) :
                      /\ pre[p][i].reservation = call[p].tag
                      /\ nodes[i].reservation = None
            \/ nodes = pre[p]

\* C7: a finished acquire with tag T whose selection contained a node that T
\* itself already held failed with NodeLocked and left the Node table as it
\* was.
C7_AcquireNotReentrant ==
    \A p \in Procs :
        (/\ Done(p) /\ call[p].op \in AcquireOps
         /\ \E i \in SelectedAtStart(p) : pre[p][i].reservation = call[p].tag)
        => /\ result[p].status = "NodeLocked"
           /\ nodes = pre[p]

\* A batch acquire by the holder of one node, over that node and a free one:
\* it failed, the holder kept its node and the free node stayed free.
C7_Witness ==
    \E p \in Procs, i \in NodeIds, j \in NodeIds :
        /\ Done(p) /\ call[p].op = "reserve_nodes"
        /\ {i, j} \subseteq SelectedAtStart(p)
        /\ pre[p][i].reservation = call[p].tag
        /\ pre[p][j].reservation = None
        /\ result[p].status = "NodeLocked"
        /\ nodes[i].reservation = call[p].tag
        /\ nodes[j].reservation = None

\* C8 (as claimed): get_conductors returns exactly the conductors that are
\* online and whose updated_at is later than utcnow() - heartbeat_timeout.
C8_ListAliveOnlineAndFresh ==
    reply.op = "get_conductors" =>
        reply.rows = {h \in DOMAIN conductors :
                          /\ conductors[h].online = TRUE
                          /\ conductors[h].updated_at
                                 > reply.at - heartbeat_timeout}

\* C9: get_conductors leaves out every online conductor whose last heartbeat
\* is older than heartbeat_timeout; get_conductor returns the row of the
\* hostname exactly when that row exists and is online, however old its
\* heartbeat, and fails with ConductorNotFound otherwise.
C9_FreshnessExclusion ==
    /\ reply.op = "get_conductors" =>
           \A h \in DOMAIN conductors :
               (/\ conductors[h].online = TRUE
                /\ reply.at - conductors[h].updated_at > heartbeat_timeout)
               => h \notin reply.rows
    /\ reply.op = "get_conductor" =>
           IF reply.was.exists /\ reply.was.online
           THEN reply.status = "ok" /\ reply.rows = {reply.hostname}
           ELSE reply.status = "ConductorNotFound" /\ reply.rows = {}

\* get_conductor returned an online conductor whose heartbeat is older than
\* heartbeat_timeout, and which get_conductors at that time leaves out.
C9_Witness ==
    /\ reply.op = "get_conductor" /\ reply.status = "ok"
    /\ reply.rows = {reply.hostname}
    /\ reply.was.online
    /\ reply.at - reply.was.updated_at > heartbeat_timeout
    /\ reply.hostname \notin
           get_conductors_rows(conductors, reply.at, heartbeat_timeout)

\* C10: touch_conductor on a hostname that has a row, online or not,
\* succeeds and leaves that row online with updated_at = utcnow() and its
\* other attributes as they were; on a hostname without a row it fails with
\* ConductorNotFound and there is still no row.
C10_HeartbeatRevives ==
    reply.op = "touch_conductor" =>
        IF reply.was.exists
        THEN /\ reply.status = "ok"
             /\ reply.hostname \in DOMAIN conductors
             /\ conductors[reply.hostname] =
                    [online |-> TRUE, updated_at |-> reply.at,
                     attrs |-> reply.was.attrs]
        ELSE /\ reply.status = "ConductorNotFound"
             /\ reply.hostname \notin DOMAIN conductors

\* A heartbeat for an unregistered (offline) conductor, later than its last
\* one, brought it back online.
C10_Witness ==
    /\ reply.op = "touch_conductor" /\ reply.status = "ok"
    /\ reply.was.exists /\ ~reply.was.online
    /\ reply.was.updated_at < reply.at
    /\ conductors[reply.hostname].online = TRUE
    /\ conductors[reply.hostname].updated_at = reply.at

\* A registry call has just been made (a call that repeats the previous one
\* at the same time and changes nothing is a stuttering step).
Called(op) == reply' # reply /\ reply'.op = op

C12_AlreadyOnlineGuard ==
    (/\ reply.op = "register_conductor" /\ ~reply.update_existing
     /\ reply.was.exists /\ reply.was.online)
    => /\ reply.status = "ConductorAlreadyRegistered"
       /\ Found(conductors, reply.hostname) = reply.was

\* The refused registration met an online row with a stale heartbeat and
\* other attributes than the ones supplied.
C12_Witness ==
    /\ reply.op = "register_conductor" /\ ~reply.update_existing
    /\ reply.status = "ConductorAlreadyRegistered"
    /\ reply.was.online
    /\ reply.at - reply.was.updated_at > heartbeat_timeout
    /\ reply.was.attrs # reply.attrs
    /\ Found(conductors, reply.hostname) = reply.was

\* C13: register_conductor fails with ConductorAlreadyRegistered only when
\* the row is online and update_existing is false; in every other case it
\* succeeds and the row of the hostname has the supplied attributes, online
\* = True and updated_at = utcnow().
C13_RegistrationRevives ==
    reply.op = "register_conductor" =>
        IF reply.was.exists /\ reply.was.online /\ ~reply.update_existing
        THEN reply.status = "ConductorAlreadyRegistered"
        ELSE /\ reply.status = "ok"
             /\ reply.hostname \in DOMAIN conductors
             /\ conductors[reply.hostname] =
                    [online |-> TRUE, updated_at |-> reply.at,
                     attrs |-> reply.attrs]

\* A registration without update_existing revived an offline row, with new
\* attributes and a later timestamp.
C13_Witness ==
    /\ reply.op = "register_conductor" /\ ~reply.update_existing
    /\ reply.status = "ok"
    /\ reply.was.exists /\ ~reply.was.online
    /\ reply.was.attrs # reply.attrs
    /\ reply.was.updated_at < reply.at
    /\ conductors[reply.hostname] =
           [online |-> TRUE, updated_at |-> reply.at, attrs |-> reply.attrs]

\* C14: unregister_conductor succeeds exactly when the row of the hostname
\* is online, and then only sets online = False; for an unknown hostname or
\* an offline row it fails with ConductorNotFound and changes nothing; so an
\* unregister_conductor that directly follows a successful one for the same
\* hostname fails with ConductorNotFound.
C14_UnregisterOnlyOnline ==
    [][Called("unregister_conductor") =>
          /\ IF reply'.was.exists /\ reply'.was.online
             THEN /\ reply'.status = "ok"
                  /\ conductors' =
                         [conductors EXCEPT ![reply'.hostname].online = FALSE]
             ELSE /\ reply'.status = "ConductorNotFound"
                  /\ conductors' = conductors
          /\ (/\ reply.op = "unregister_conductor" /\ reply.status = "ok"
              /\ reply'.hostname = reply.hostname)
             => reply'.status = "ConductorNotFound"
      ]_vars

\* The second of two unregistrations: the row was already offline, the call
\* failed and the row is as it was.
C14_Witness ==
    /\ reply.op = "unregister_conductor"
    /\ reply.status = "ConductorNotFound"
    /\ reply.was.exists /\ ~reply.was.online
    /\ Found(conductors, reply.hostname) = reply.was

\* C15: for a conductor that is online (its last change was a registration
\* or a heartbeat, at updated_at), get_conductors returns it exactly while
\* less than heartbeat_timeout has passed since: right after registration it
\* is returned, once heartbeat_timeout has passed without a heartbeat it is
\* not, and after the next heartbeat it is returned again.
C15_LivenessScenario ==
    reply.op = "get_conductors" =>
        \A h \in DOMAIN conductors :
            conductors[h].online = TRUE =>
                (h \in reply.rows
                     <=> reply.at - conductors[h].updated_at
                             < heartbeat_timeout)

\* One conductor was registered, its heartbeat_timeout passed without a
\* heartbeat, and get_conductors returned nothing.
C15_Witness ==
    /\ reply.op = "get_conductors" /\ reply.rows = {}
    /\ \E h \in Hostnames :
           /\ DOMAIN conductors = {h}
           /\ conductors[h].online = TRUE
           /\ reply.at - conductors[h].updated_at >= heartbeat_timeout

\* C16: rows of the Conductor table are never deleted; the table changes
\* only in a successful register_conductor, touch_conductor or
\* unregister_conductor, and then only in the row of that hostname; the
\* passage of time, get_conductors and get_conductor leave it as it is.
C16_FreshnessIsReadSide ==
    [][/\ DOMAIN conductors \subseteq DOMAIN conductors'
       /\ conductors' # conductors =>
              /\ reply'.op \in {"register_conductor", "touch_conductor",
                                "unregister_conductor"}
              /\ reply'.status = "ok"
              /\ \A h \in DOMAIN conductors \ {reply'.hostname} :
                     conductors'[h] = conductors[h]
       /\ now' # now => conductors' = conductors
       /\ (Called("get_conductors") \/ Called("get_conductor")) =>
              conductors' = conductors
      ]_vars

\* A stale row was read by get_conductor, time went on, and the row is still
\* stored online with its old updated_at.
C16_Witness ==
    /\ reply.op = "get_conductor" /\ reply.status = "ok"
    /\ reply.at - reply.was.updated_at > heartbeat_timeout
    /\ now > reply.at
    /\ Found(conductors, reply.hostname) = reply.was

\* ------------------------------------------------------------ entity store claims
\* A step that is a call of the entity store operation op.
StoreCalled(op) == sreply'.op = op /\ UNCHANGED <<callVars, regVars>>

\* The nics attached to the nodes of rows.
OwnedBy(rows) == {n \in DOMAIN nics : nics[n].node_id \in rows}

\* C17 (cascade delete): a destroy_node or destroy_nodes that succeeds removes
\* exactly the nodes it names that exist and, in the same commit, exactly the
\* nics attached to them; every other nic is left as it was, a lookup by id,
\* by uuid or by mac of a removed nic finds nothing (NicNotFound), and no nic
\* of the committed table is attached to a node that is gone.
C17_CascadeDelete ==
    [][(StoreCalled("destroy_node") \/ StoreCalled("destroy_nodes"))
       /\ sreply'.status = "ok"
       => LET named == IF sreply'.op = "destroy_node"
                       THEN {i \in DOMAIN nodes : nodes[i].name = sreply'.name}
                       ELSE sreply'.ids \cap DOMAIN nodes
              owned == OwnedBy(named)
          IN /\ named # {}
             /\ DOMAIN nodes' = DOMAIN nodes \ named
             /\ DOMAIN nics' = DOMAIN nics \ owned
             /\ \A n \in DOMAIN nics' : nics'[n] = nics[n]
             /\ \A n \in owned :
                    /\ nic_lookup_status(get_nic_by_id_rows(nics', n))
                           = "NicNotFound"
                    /\ nic_lookup_status(
                           get_nic_by_uuid_rows(nics', nics[n].uuid))
                           = "NicNotFound"
                    /\ nic_lookup_status(
                           get_nic_by_mac_rows(nics', nics[n].mac))
                           = "NicNotFound"
             /\ \A n \in DOMAIN nics' : nics'[n].node_id \in DOMAIN nodes'
      ]_vars

\* A destroy_node has removed a node together with its nics while a nic of
\* another node stays in the table.
C17_Witness ==
    /\ sreply.op = "destroy_node"
    /\ sreply.status = "ok"
    /\ sreply.gone_nics # {}
    /\ sreply.gone_nics \cap DOMAIN nics = {}
    /\ DOMAIN nics # {}
    /\ \A i \in DOMAIN nodes : nodes[i].name # sreply.name

\* No two nics carry the same mac.
UniqueMacs ==
    \A m, n \in DOMAIN nics : m # n => nics[m].mac # nics[n].mac

\* The mac, or the uuid, of the nic create_nic was asked to store is the one
\* of a nic already in the table.
MacTaken == \E n \in DOMAIN nics : nics[n].mac = sreply'.nic.mac
UuidTaken == \E n \in DOMAIN nics : nics[n].uuid = sreply'.nic.uuid

\* C18 as stated (duplicate detection): a create_nic whose mac is the mac of
\* an existing nic fails with the duplicate-address error MACAlreadyExists and
\* leaves the Nics table as it was; no two nics ever share a mac.
C18_DuplicateAddress ==
    /\ []UniqueMacs
    /\ [][StoreCalled("create_nic") /\ MacTaken
          => sreply'.status = "MACAlreadyExists" /\ nics' = nics]_vars

\* C18 as amended: a create_nic whose mac is the mac of an existing nic fails
\* and leaves the Nics table as it was; the error is MACAlreadyExists when the
\* uuid given is not also the uuid of an existing nic, and MACAlreadyExists or
\* NicAlreadyExists when it is; no two nics ever share a mac.
C18_DuplicateAddressOrIdentity ==
    /\ []UniqueMacs
    /\ [][StoreCalled("create_nic") /\ MacTaken
          => /\ sreply'.status \in {"MACAlreadyExists", "NicAlreadyExists"}
             /\ ~UuidTaken => sreply'.status = "MACAlreadyExists"
             /\ nics' = nics]_vars

\* A create_nic has failed with MACAlreadyExists and the nic that carries the
\* mac, a different nic, is still in the table.
C18_Witness ==
    /\ sreply.op = "create_nic"
    /\ sreply.status = "MACAlreadyExists"
    /\ \E n \in DOMAIN nics :
           /\ nics[n].mac = sreply.nic.mac
           /\ nics[n].uuid # sreply.nic.uuid

\* C19 (error translation): no entity store call ends with the storage
\* layer's DBDuplicateEntry, and a create_node with a new name whose nics_info
\* holds the mac of an existing nic fails with the duplicate-address error
\* MACAlreadyExists.
C19_ErrorTranslation ==
    [][/\ sreply'.status # "DBDuplicateEntry"
       /\ (/\ StoreCalled("create_node")
           /\ \A i \in DOMAIN nodes : nodes[i].name # sreply'.name
           /\ \E k \in DOMAIN sreply'.info, n \in DOMAIN nics :
                  nics[n].mac = sreply'.info[k])
          => sreply'.status = "MACAlreadyExists"
      ]_vars

\* C20 (zero partial effects): a create_node that fails, on a duplicate name
\* or on a duplicate mac of any of its nics, leaves the Node table and the
\* Nics table exactly as they were before the call.
C20_NoPartialCreate ==
    [][StoreCalled("create_node") /\ sreply'.status # "ok"
       => nodes' = nodes /\ nics' = nics]_vars

\* A create_node with a new name has failed on a later nic after it had
\* flushed the node and at least one nic.
C20_Witness ==
    /\ sreply.op = "create_node"
    /\ sreply.status # "ok"
    /\ sreply.flushed >= 1
    /\ \A i \in DOMAIN nodes : nodes[i].name # sreply.name

\* ------------------------------------------------------- reservation history
\* The step commits a successful call of p, with one of the operations ops,
\* that names node i.
Commits(p, ops, i) ==
    /\ pc[p] = "updated"
    /\ pc'[p] = "done"
    /\ result'[p].status = "ok"
    /\ call[p].op \in ops
    /\ i \in Targets(call[p])

\* C21 (ownership history): the table keeps its nodes, and whenever the
\* committed reservation of a node changes, the step is the commit of a
\* successful acquire with tag T that changes it from null to T, or the commit
\* of a successful release with tag T that changes it from T to null.  So it
\* never goes from one tag to another, and no release with another tag than
\* the holder's clears it.
C21_OwnershipHistory ==
    [][/\ DOMAIN nodes' = DOMAIN nodes
       /\ \A i \in DOMAIN nodes :
              nodes'[i].reservation # nodes[i].reservation
              => \E p \in Procs :
                     \/ /\ Commits(p, AcquireOps, i)
                        /\ nodes[i].reservation = None
                        /\ nodes'[i].reservation = call[p].tag
                     \/ /\ Commits(p, ReleaseOps, i)
                        /\ nodes[i].reservation = call[p].tag
                        /\ nodes'[i].reservation = None
      ]_vars

\* One caller has released a node its tag held, and another caller's release
\* of a node held by a different tag has failed and left it held.
C21_Witness ==
    \E p \in Procs : \E q \in Procs \ {p} :
        /\ Done(p) /\ Done(q)
        /\ call[p].op \in ReleaseOps /\ call[q].op \in ReleaseOps
        /\ result[p].status = "ok"
        /\ \E i \in Targets(call[p]) \cap DOMAIN pre[p] :
               /\ pre[p][i].reservation = call[p].tag
               /\ nodes[i].reservation = None
        /\ result[q].status = "NodeLocked"
        /\ \E j \in Targets(call[q]) \cap DOMAIN pre[q] :
               /\ pre[q][j].reservation \notin {None, call[q].tag}
               /\ nodes[j].reservation = pre[q][j].reservation

\* p and q are finished reserve_nodes calls with different tags whose name
\* sets overlap.
BatchRace(p, q) ==
    /\ Done(p) /\ Done(q)
    /\ call[p].op = "reserve_nodes" /\ call[q].op = "reserve_nodes"
    /\ call[p].tag # call[q].tag
    /\ call[p].node_names \cap call[q].node_names # {}

\* C22 (no residue of overlapping batch acquires): when the reserve_nodes
\* calls of the callers, with different tags and overlapping name sets, have
\* all finished, however they interleaved, they have not both succeeded, every
\* node is unreserved or held by the tag of a call that succeeded and named
\* it, and no node is held by the tag of a call that ended with NodeLocked or
\* NodeNotFound.
C22_NoResidue ==
    \A p \in Procs : \A q \in Procs \ {p} :
        BatchRace(p, q)
        => /\ ~(result[p].status = "ok" /\ result[q].status = "ok")
           /\ \A i \in DOMAIN nodes :
                  \/ nodes[i].reservation = None
                  \/ \E r \in {p, q} :
                         /\ result[r].status = "ok"
                         /\ call[r].tag = nodes[i].reservation
                         /\ i \in Targets(call[r])
           /\ \A r \in {p, q} :
                  result[r].status \in {"NodeLocked", "NodeNotFound"}
                  => \A i \in DOMAIN nodes :
                         nodes[i].reservation # call[r].tag

\* Two such calls started while a node both name was unreserved; one has
\* succeeded, and the other, whose UPDATE had reserved another node, has
\* ended with NodeLocked.
C22_Witness ==
    \E p \in Procs : \E q \in Procs \ {p} :
        /\ BatchRace(p, q)
        /\ \E i \in Targets(call[p]) \cap Targets(call[q]) :
               FreeAtStart(p, i) /\ FreeAtStart(q, i)
        /\ result[p].status = "ok"
        /\ result[q].status = "NodeLocked"
        /\ count[q] >= 1

\* ------------------------------------------------- concurrent registration
\* p and q have finished register_conductor calls for the same hostname, and
\* both queries found no row for it.
RegisterRace(p, q) ==
    /\ reg[p].pc = "done" /\ reg[q].pc = "done"
    /\ reg[p].hostname = reg[q].hostname
    /\ ~reg[p].was.exists /\ ~reg[q].was.exists

\* C23 (unique worker identity under concurrent registration): after two
\* register_conductor calls for the same hostname that both found no row, the
\* table holds a row for the hostname, and each call has succeeded or has
\* ended with ConductorAlreadyRegistered, never with the store's duplicate
\* entry error.
C23_ConcurrentRegistration ==
    \A p \in Procs : \A q \in Procs \ {p} :
        RegisterRace(p, q)
        => /\ reg[p].hostname \in DOMAIN conductors
           /\ reg[p].status \in {"ok", "ConductorAlreadyRegistered"}
           /\ reg[q].status \in {"ok", "ConductorAlreadyRegistered"}

====
